---- MODULE Spec2Model ----
(***************************************************************************)
(* Model of the combat-log line parser of src/main.go.                     *)
(*                                                                         *)
(* Lines are TLA+ strings and are matched character by character: the      *)
(* regular expressions of the source are transcribed item by item and run  *)
(* by a backtracking matcher with the leftmost-first semantics of Go's     *)
(* regexp package; time.Parse and strconv.Atoi are modelled by what they   *)
(* do on the strings the regular expressions hand them.                    *)
(***************************************************************************)
EXTENDS Integers, Sequences, FiniteSets, TLC

VARIABLES
    line,        \* parseLogLine: the line being parsed
    pc,          \* parseLogLine: "idle", "range" (inside the loop over options), "done"
    todo,        \* parseLogLine: keys of options the range loop has not visited yet
    entry,       \* parseLogLine: var entry *LogEntry (<<>> for nil, or <<e>>)
    ret,         \* parseLogLine: the returned (entry, error) pair
    rets,        \* caller of parseLogLine: the results of the calls made on `line`
    tsin,        \* extractTimestamp: the argument
    tsout,       \* extractTimestamp: <<>> before the call, then <<the returned triple>>
    input,       \* main: the lines the scanner yields, in file order
    mpc,         \* main: "scan", "parse", "report", "exit"
    lines,       \* main: lines
    errorlines,  \* main: errorlines
    ri,          \* main: index i of the final loop over errorlines
    printed,     \* main: the failing lines printed by the final loop
    outcome      \* p(l) for each parser p and each line l the run parses

vars == <<line, pc, todo, entry, ret, rets, tsin, tsout,
          input, mpc, lines, errorlines, ri, printed, outcome>>

Nil == "nil"

\* v := <expression>; <body>: the body with v bound to the value.
With(v, Body(_)) == Body(v)

-----------------------------------------------------------------------------
(* Characters and character classes of RE2 syntax.                         *)

Digits == {"0", "1", "2", "3", "4", "5", "6", "7", "8", "9"}

Letters ==
    {"a", "b", "c", "d", "e", "f", "g", "h", "i", "j", "k", "l", "m",
     "n", "o", "p", "q", "r", "s", "t", "u", "v", "w", "x", "y", "z",
     "A", "B", "C", "D", "E", "F", "G", "H", "I", "J", "K", "L", "M",
     "N", "O", "P", "Q", "R", "S", "T", "U", "V", "W", "X", "Y", "Z"}

\* \s is [\t\n\f\r ] in RE2.
Blanks == {" ", "\t", "\n", "\f", "\r"}

\* "d" is \d, "w" is \w, "s" is \s, "." is any character but newline,
\* "^ " is [^ ], "d," is [\d,].
InClass(ch, c) ==
    CASE c = "d"  -> ch \in Digits
      [] c = "w"  -> ch \in Digits \cup Letters \cup {"_"}
      [] c = "s"  -> ch \in Blanks
      [] c = "."  -> ch # "\n"
      [] c = "^ " -> ch # " "
      [] c = "d," -> ch \in Digits \cup {","}

CharAt(s, i) == SubSeq(s, i, i)

HasPrefix(s, prefix) ==
    /\ Len(prefix) <= Len(s)
    /\ SubSeq(s, 1, Len(prefix)) = prefix

\* s[i:] with i a 0-based byte offset.
SliceFrom(s, i) == SubSeq(s, i + 1, Len(s))

-----------------------------------------------------------------------------
(* Regular expressions: a regular expression is a sequence of items.       *)

Lit(s) == <<[t |-> "lit", s |-> s]>>
Rep(c, lo, hi) == <<[t |-> "rep", c |-> c, lo |-> lo, hi |-> hi, g |-> TRUE]>>
Star(c) == <<[t |-> "rep", c |-> c, lo |-> 0, hi |-> -1, g |-> TRUE]>>
Plus(c) == <<[t |-> "rep", c |-> c, lo |-> 1, hi |-> -1, g |-> TRUE]>>
LazyStar(c) == <<[t |-> "rep", c |-> c, lo |-> 0, hi |-> -1, g |-> FALSE]>>
Opt(r) == <<[t |-> "opt", r |-> r]>>
Alt(rs) == <<[t |-> "alt", rs |-> rs]>>
Cap(n, r) == <<[t |-> "open", n |-> n]>> \o r \o <<[t |-> "close", n |-> n]>>
Bol == <<[t |-> "bol"]>>
Eol == <<[t |-> "eol"]>>

CapNames ==
    {"ts", "source", "crit", "benefitname", "target", "skill", "value", "type",
     "otherplayer", "avoided", "player", "reason", "victor", "dead",
     "corruption", "g1", "g2"}

NoCaps == [st |-> [n \in CapNames |-> 0], val |-> [n \in CapNames |-> ""]]

NoMatch == [ok |-> FALSE]

Min(S) == CHOOSE x \in S : \A y \in S : x <= y
Max(S) == CHOOSE x \in S : \A y \in S : x >= y

\* The number of consecutive characters of class c from position pos, at most hi
\* of them when hi >= 0.
RunLen(s, pos, c, hi) ==
    LET stop == {j \in pos..Len(s) : ~InClass(CharAt(s, j), c)}
        m == (IF stop = {} THEN Len(s) + 1 ELSE Min(stop)) - pos
    IN IF hi >= 0 /\ m > hi THEN hi ELSE m

RECURSIVE Match(_, _, _, _)
RECURSIVE TryAlt(_, _, _, _, _, _)

\* The first match, in backtracking preference order, of the items from
\* position pos of s.  A repetition takes, of the counts after which the rest
\* matches, the largest when greedy and the smallest when lazy.
Match(items, s, pos, caps) ==
    IF Len(items) = 0
    THEN [ok |-> TRUE, start |-> 0, end |-> pos, caps |-> caps]
    ELSE LET it == Head(items)
             rest == Tail(items)
         IN CASE it.t = "lit" ->
                   IF /\ pos + Len(it.s) - 1 <= Len(s)
                      /\ SubSeq(s, pos, pos + Len(it.s) - 1) = it.s
                   THEN Match(rest, s, pos + Len(it.s), caps)
                   ELSE NoMatch
              [] it.t = "rep" ->
                   LET m == RunLen(s, pos, it.c, it.hi)
                       rs == [n \in it.lo..m |-> Match(rest, s, pos + n, caps)]
                       good == {n \in it.lo..m : rs[n].ok}
                   IN IF good = {}
                      THEN NoMatch
                      ELSE rs[IF it.g THEN Max(good) ELSE Min(good)]
              [] it.t = "opt" ->
                   LET r == Match(it.r \o rest, s, pos, caps)
                   IN IF r.ok THEN r ELSE Match(rest, s, pos, caps)
              [] it.t = "alt" -> TryAlt(it.rs, 1, rest, s, pos, caps)
              [] it.t = "open" ->
                   Match(rest, s, pos, [caps EXCEPT !.st[it.n] = pos])
              [] it.t = "close" ->
                   Match(rest, s, pos,
                         [caps EXCEPT !.val[it.n] = SubSeq(s, caps.st[it.n], pos - 1)])
              [] it.t = "bol" ->
                   IF pos = 1 THEN Match(rest, s, pos, caps) ELSE NoMatch
              [] it.t = "eol" ->
                   IF pos = Len(s) + 1 THEN Match(rest, s, pos, caps) ELSE NoMatch

\* The alternatives from the i-th on, in order.
TryAlt(rs, i, rest, s, pos, caps) ==
    IF i > Len(rs)
    THEN NoMatch
    ELSE LET r == Match(rs[i] \o rest, s, pos, caps)
         IN IF r.ok THEN r ELSE TryAlt(rs, i + 1, rest, s, pos, caps)

\* re.FindStringSubmatch(s): the leftmost match; ok is len(match) != 0, caps.val the
\* submatches ("" for a group that took no part), s[start..end-1] is match[0].
FindStringSubmatch(re, s) ==
    LET rs == [st \in 1..(Len(s) + 1) |-> Match(re, s, st, NoCaps)]
        good == {st \in 1..(Len(s) + 1) : rs[st].ok}
    IN IF good = {} THEN NoMatch ELSE [rs[Min(good)] EXCEPT !.start = Min(good)]

\* regexp.Match(pattern, []byte(s)) with a pattern that compiles.
RegexpMatch(re, s) == FindStringSubmatch(re, s).ok

-----------------------------------------------------------------------------
(* time.Parse, for the two layouts extractTimestamp uses.                  *)

\* time.Time{} and the time a layout without a year yields (year 0, UTC).
ZeroTime == [year |-> 1, month |-> 1, day |-> 1, hour |-> 0, min |-> 0, sec |-> 0]

\* A layout as nextStdChunk cuts it: each chunk is the literal prefix and the
\* standard element after it; the last chunk has no element.
\* "01/02 03:04:05 PM": 01 stdZeroMonth, 02 stdZeroDay, 03 stdZeroHour12,
\* 04 stdZeroMinute, 05 stdZeroSecond, PM stdPM.
LayoutPM ==
    << <<"", "01">>, <<"/", "02">>, <<" ", "03">>, <<":", "04">>, <<":", "05">>,
       <<" ", "PM">>, <<"", "">> >>

\* "01/02 03:04:05": the hour element is again 03, the 12-hour clock.
LayoutNoPM ==
    << <<"", "01">>, <<"/", "02">>, <<" ", "03">>, <<":", "04">>, <<":", "05">>,
       <<"", "">> >>

formats == <<LayoutPM, LayoutNoPM>>

DigitVal(ch) ==
    CASE ch = "0" -> 0 [] ch = "1" -> 1 [] ch = "2" -> 2 [] ch = "3" -> 3
      [] ch = "4" -> 4 [] ch = "5" -> 5 [] ch = "6" -> 6 [] ch = "7" -> 7
      [] ch = "8" -> 8 [] ch = "9" -> 9

IsDigit(s, i) == i + 1 <= Len(s) /\ CharAt(s, i + 1) \in Digits

\* time.getnum: a one- or two-digit number, two digits when fixed.
GetNum(s, fixed) ==
    IF ~IsDigit(s, 0) THEN [ok |-> FALSE]
    ELSE IF ~IsDigit(s, 1)
         THEN IF fixed THEN [ok |-> FALSE]
              ELSE [ok |-> TRUE, n |-> DigitVal(CharAt(s, 1)), value |-> SliceFrom(s, 1)]
         ELSE [ok |-> TRUE,
               n |-> DigitVal(CharAt(s, 1)) * 10 + DigitVal(CharAt(s, 2)),
               value |-> SliceFrom(s, 2)]

RECURSIVE CutSpace(_)
CutSpace(s) ==
    IF Len(s) > 0 /\ CharAt(s, 1) = " " THEN CutSpace(SliceFrom(s, 1)) ELSE s

RECURSIVE Skip(_, _)
\* time.skip: removes prefix from value, a run of spaces of the prefix matching
\* any run of spaces of the value.
Skip(value, prefix) ==
    IF Len(prefix) = 0 THEN [ok |-> TRUE, value |-> value]
    ELSE IF CharAt(prefix, 1) = " "
         THEN IF Len(value) > 0 /\ CharAt(value, 1) # " "
              THEN [ok |-> FALSE]
              ELSE Skip(CutSpace(value), CutSpace(prefix))
         ELSE IF Len(value) = 0 \/ CharAt(value, 1) # CharAt(prefix, 1)
              THEN [ok |-> FALSE]
              ELSE Skip(SliceFrom(value, 1), SliceFrom(prefix, 1))

\* Year 0 is a leap year.
DaysIn(month) ==
    CASE month = 2 -> 29
      [] month \in {4, 6, 9, 11} -> 30
      [] OTHER -> 31

ParseFailed == [ok |-> FALSE]

\* The end of time.Parse: the AM/PM adjustment and the validation of the day.
ParseFinish(f) ==
    LET hour == IF f.pm /\ f.hour < 12 THEN f.hour + 12
                ELSE IF f.am /\ f.hour = 12 THEN 0
                ELSE f.hour
    IN IF f.day < 1 \/ f.day > DaysIn(f.month)
       THEN ParseFailed
       ELSE [ok |-> TRUE,
             t |-> [year |-> 0, month |-> f.month, day |-> f.day,
                    hour |-> hour, min |-> f.min, sec |-> f.sec]]

RECURSIVE ParseChunks(_, _, _, _)
\* The loop of time.Parse over the chunks of the layout.  (A fractional second
\* after the seconds cannot arise: the token ends in blanks and AM or PM.)
ParseChunks(layout, i, value0, f) ==
    LET prefix == layout[i][1]
        std == layout[i][2]
        sk == Skip(value0, prefix)
    IN IF ~sk.ok THEN ParseFailed
       ELSE IF std = ""
            THEN IF Len(sk.value) # 0 THEN ParseFailed ELSE ParseFinish(f)
            ELSE IF std = "PM"
                 THEN IF Len(sk.value) < 2 THEN ParseFailed
                      ELSE LET p == SubSeq(sk.value, 1, 2)
                               value == SliceFrom(sk.value, 2)
                           IN IF p = "PM"
                              THEN ParseChunks(layout, i + 1, value, [f EXCEPT !.pm = TRUE])
                              ELSE IF p = "AM"
                                   THEN ParseChunks(layout, i + 1, value,
                                                    [f EXCEPT !.am = TRUE])
                                   ELSE ParseFailed
                 ELSE LET g == GetNum(sk.value, TRUE)
                      IN IF ~g.ok THEN ParseFailed
                         ELSE CASE std = "01" ->
                                     IF g.n <= 0 \/ 12 < g.n THEN ParseFailed
                                     ELSE ParseChunks(layout, i + 1, g.value,
                                                      [f EXCEPT !.month = g.n])
                                [] std = "02" ->
                                     ParseChunks(layout, i + 1, g.value,
                                                 [f EXCEPT !.day = g.n])
                                [] std = "03" ->
                                     IF g.n < 0 \/ 12 < g.n THEN ParseFailed
                                     ELSE ParseChunks(layout, i + 1, g.value,
                                                      [f EXCEPT !.hour = g.n])
                                [] std = "04" ->
                                     IF g.n < 0 \/ 60 <= g.n THEN ParseFailed
                                     ELSE ParseChunks(layout, i + 1, g.value,
                                                      [f EXCEPT !.min = g.n])
                                [] std = "05" ->
                                     IF g.n < 0 \/ 60 <= g.n THEN ParseFailed
                                     ELSE ParseChunks(layout, i + 1, g.value,
                                                      [f EXCEPT !.sec = g.n])

\* time.Parse(layout, value): ok is err == nil.
TimeParse(layout, value) ==
    ParseChunks(layout, 1, value,
                [month |-> -1, day |-> -1, hour |-> 0, min |-> 0, sec |-> 0,
                 pm |-> FALSE, am |-> FALSE])

-----------------------------------------------------------------------------
(* extractTimestamp                                                        *)

\* ^\[?(\d{2}\/\d{2}\s+\d{2}:\d{2}:\d{2}\s*(?:AM|PM)?)\]?<space>
TimestampRe ==
    Bol \o Opt(Lit("["))
        \o Cap("ts", Rep("d", 2, 2) \o Lit("/") \o Rep("d", 2, 2) \o Plus("s")
                     \o Rep("d", 2, 2) \o Lit(":") \o Rep("d", 2, 2) \o Lit(":")
                     \o Rep("d", 2, 2) \o Star("s")
                     \o Opt(Alt(<<Lit("AM"), Lit("PM")>>)))
        \o Opt(Lit("]")) \o Lit(" ")

ErrTimestampNotFound == "timestamp not found"
ErrInvalidTimestampFormat == "invalid timestamp format"

RECURSIVE TryFormats(_, _, _)
\* The loop over formats: the first layout that parses the token.
TryFormats(i, timestampStr, remaining) ==
    IF i > Len(formats)
    THEN [t |-> ZeroTime, remaining |-> "", err |-> ErrInvalidTimestampFormat]
    ELSE With(TimeParse(formats[i], timestampStr), LAMBDA p :
         IF p.ok
         THEN [t |-> p.t, remaining |-> remaining, err |-> Nil]
         ELSE TryFormats(i + 1, timestampStr, remaining))

extractTimestamp(l) ==
    With(FindStringSubmatch(TimestampRe, l), LAMBDA match :
         IF ~match.ok
         THEN [t |-> ZeroTime, remaining |-> "", err |-> ErrTimestampNotFound]
         ELSE TryFormats(1, match.caps.val["ts"], SliceFrom(l, match.end - match.start)))

-----------------------------------------------------------------------------
(* strings.Replace(s, ",", "", -1) and strconv.Atoi                        *)

RECURSIVE RemoveCommas(_)
RemoveCommas(s) ==
    IF Len(s) = 0 THEN ""
    ELSE IF CharAt(s, 1) = ","
         THEN RemoveCommas(SliceFrom(s, 1))
         ELSE CharAt(s, 1) \o RemoveCommas(SliceFrom(s, 1))

RECURSIVE AllDigits(_)
AllDigits(s) ==
    Len(s) = 0 \/ (CharAt(s, 1) \in Digits /\ AllDigits(SliceFrom(s, 1)))

RECURSIVE StripZeros(_)
StripZeros(s) ==
    IF Len(s) > 1 /\ CharAt(s, 1) = "0" THEN StripZeros(SliceFrom(s, 1)) ELSE s

RECURSIVE DigitsLess(_, _)
\* a < b for two digit strings of the same length.
DigitsLess(a, b) ==
    /\ Len(a) > 0
    /\ \/ DigitVal(CharAt(a, 1)) < DigitVal(CharAt(b, 1))
       \/ /\ CharAt(a, 1) = CharAt(b, 1)
          /\ DigitsLess(SliceFrom(a, 1), SliceFrom(b, 1))

RECURSIVE DigitsValue(_, _)
DigitsValue(s, acc) ==
    IF Len(s) = 0 THEN acc
    ELSE DigitsValue(SliceFrom(s, 1), acc * 10 + DigitVal(CharAt(s, 1)))

\* The largest int of a 64-bit build, 1<<63 - 1.
MaxInt64Digits == "9223372036854775807"

\* strconv.Atoi(s) on a 64-bit build: an optional sign, then decimal digits; a
\* syntax error for anything else and a range error beyond 64 bits.  (The value
\* itself is computed for the numbers 32-bit integers hold.)
Atoi(s) ==
    LET signed == Len(s) > 0 /\ CharAt(s, 1) \in {"+", "-"}
        neg == Len(s) > 0 /\ CharAt(s, 1) = "-"
        body == IF signed THEN SliceFrom(s, 1) ELSE s
        mag == StripZeros(body)
    IN IF Len(body) = 0 \/ ~AllDigits(body)
       THEN [ok |-> FALSE, err |-> "invalid syntax"]
       ELSE IF \/ Len(mag) > Len(MaxInt64Digits)
               \/ /\ Len(mag) = Len(MaxInt64Digits)
                  /\ DigitsLess(MaxInt64Digits, mag)
                  /\ ~(neg /\ mag = "9223372036854775808")
            THEN [ok |-> FALSE, err |-> "value out of range"]
            ELSE [ok |-> TRUE,
                  n |-> IF neg THEN 0 - DigitsValue(mag, 0) ELSE DigitsValue(mag, 0)]

-----------------------------------------------------------------------------
(* LogEntry and the three outcomes of an eventParser                       *)

selfplaceholder == "SELF_REPLACE"

\* The EventType keys of the options map of parseLogLine.
EventTypes ==
    {"Comment", "Benefit", "Heal", "DmgDealt", "TempMoraleLost", "Death",
     "Revive", "CorruptionRemoved", "CcBroken"}

\* LogEntry{}: every field at its zero value (Unknown and UnknownAvoid are the
\* zero values of EventType and Avoid).
ZeroEntry ==
    [Timestamp |-> ZeroTime, etype |-> "Unknown", Source |-> "", Target |-> "",
     Skill |-> "", Value |-> 0, ValueType |-> "", Crit |-> FALSE, Dev |-> FALSE,
     Avoided |-> "UnknownAvoid", RawMessage |-> ""]

\* entry := &LogEntry{RawMessage: line}; entry.Timestamp = timestamp
NewEntry(l, timestamp) ==
    [ZeroEntry EXCEPT !.RawMessage = l, !.Timestamp = timestamp]

\* return entry, nil
Matched(e) == [res |-> "ok", e |-> e, err |-> Nil]
\* return nil, &ParseNotMatchError{}
NotMatched == [res |-> "nomatch", e |-> ZeroEntry, err |-> "This parser did not match"]
\* return nil, fmt.Errorf(...)
Failed(msg) == [res |-> "error", e |-> ZeroEntry, err |-> msg]

TimestampFailed(ts) == Failed("error parsing timestamp: " \o ts.err)

-----------------------------------------------------------------------------
(* The event parsers                                                       *)

pComment(l) ==
    IF HasPrefix(l, "###")
    THEN Matched([ZeroEntry EXCEPT !.etype = "Comment"])
    ELSE NotMatched

\* applied a .*benefit
BenefitTrigger == Lit("applied a ") \o Star(".") \o Lit("benefit")

\* (?P<source>\w+) applied a (?P<crit>critical )?benefit with (?P<benefitname>.*) on (?P<target>.*).
BenefitRe ==
    Cap("source", Plus("w")) \o Lit(" applied a ")
        \o Opt(Cap("crit", Lit("critical "))) \o Lit("benefit with ")
        \o Cap("benefitname", Star(".")) \o Lit(" on ")
        \o Cap("target", Star(".")) \o Rep(".", 1, 1)

pBenefit(l) ==
    IF ~RegexpMatch(BenefitTrigger, l) THEN NotMatched
    ELSE With(extractTimestamp(l), LAMBDA ts :
         IF ts.err # Nil THEN TimestampFailed(ts)
         ELSE With(FindStringSubmatch(BenefitRe, ts.remaining), LAMBDA match :
              IF ~match.ok THEN Failed("Failed to parse as Benefit")
              ELSE Matched([NewEntry(l, ts.t) EXCEPT
                              !.Source = match.caps.val["source"],
                              !.Skill = match.caps.val["benefitname"],
                              !.Target = match.caps.val["target"],
                              !.Crit = (match.caps.val["crit"] # "")])))

\* applied a .*heal
HealTrigger == Lit("applied a ") \o Star(".") \o Lit("heal")

\* (?P<skill>\w+) applied a (?<crit>critical )?heal to (?P<target>.*) restoring (?P<value>[\d,]+) points to (?P<type>.*).
selfheal ==
    Cap("skill", Plus("w")) \o Lit(" applied a ")
        \o Opt(Cap("crit", Lit("critical "))) \o Lit("heal to ")
        \o Cap("target", Star(".")) \o Lit(" restoring ")
        \o Cap("value", Plus("d,")) \o Lit(" points to ")
        \o Cap("type", Star(".")) \o Rep(".", 1, 1)

\* (?P<otherplayer>\w+) applied a (?<crit>critical )?heal with (?P<skill>.*?) to (?P<target>.*) restoring (?P<value>[\d,]+) points to (?P<type>.*).
incHeal ==
    Cap("otherplayer", Plus("w")) \o Lit(" applied a ")
        \o Opt(Cap("crit", Lit("critical "))) \o Lit("heal with ")
        \o Cap("skill", LazyStar(".")) \o Lit(" to ")
        \o Cap("target", Star(".")) \o Lit(" restoring ")
        \o Cap("value", Plus("d,")) \o Lit(" points to ")
        \o Cap("type", Star(".")) \o Rep(".", 1, 1)

\* The branch of pHeal taken when selfheal matches.
pHealSelf(l, ts, match) ==
    With(Atoi(RemoveCommas(match.caps.val["value"])), LAMBDA val :
         IF ~val.ok
         THEN Failed("value not convertable to int: " \o val.err)
         ELSE Matched([NewEntry(l, ts.t) EXCEPT
                         !.Skill = match.caps.val["skill"],
                         !.Target = match.caps.val["target"],
                         !.Value = val.n,
                         !.ValueType = match.caps.val["type"],
                         !.Crit = (match.caps.val["crit"] # "")]))

\* The rest of pHeal, when selfheal does not match.
pHealInc(l, ts, match) ==
    IF ~match.ok THEN Failed("Failed to parse as heal")
    ELSE With(Atoi(RemoveCommas(match.caps.val["value"])), LAMBDA val :
         IF ~val.ok
         THEN Failed("value not convertable to int: " \o val.err)
         ELSE Matched([NewEntry(l, ts.t) EXCEPT
                         !.Skill = match.caps.val["skill"],
                         !.Target = match.caps.val["target"],
                         !.Source = match.caps.val["otherplayer"],
                         !.Value = val.n,
                         !.ValueType = match.caps.val["type"],
                         !.Crit = (match.caps.val["crit"] # "")]))

pHeal(l) ==
    IF ~RegexpMatch(HealTrigger, l) THEN NotMatched
    ELSE With(extractTimestamp(l), LAMBDA ts :
         IF ts.err # Nil THEN TimestampFailed(ts)
         ELSE With(FindStringSubmatch(selfheal, ts.remaining), LAMBDA match :
              IF match.ok
              THEN pHealSelf(l, ts, match)
              ELSE pHealInc(l, ts, FindStringSubmatch(incHeal, ts.remaining))))

\* scored a .*hit.*for.*damage
DmgTrigger ==
    Lit("scored a ") \o Star(".") \o Lit("hit") \o Star(".") \o Lit("for")
        \o Star(".") \o Lit("damage")

\* (partially )?(?<avoided>blocked|parried|evaded)?(?<crit>critical|devastating)? ?hit with
HitQualifiers ==
    Opt(Cap("g1", Lit("partially ")))
        \o Opt(Cap("avoided", Alt(<<Lit("blocked"), Lit("parried"), Lit("evaded")>>)))
        \o Opt(Cap("crit", Alt(<<Lit("critical"), Lit("devastating")>>)))
        \o Opt(Lit(" ")) \o Lit("hit with ")

\* (?P<source>[^ ]+) scored a <qualifiers>hit with (?P<skill>.*?) on (?P<target>.*) for (?P<value>[\d,]+) (?P<type>.*?) ?damage to Morale.
DmgRe ==
    Cap("source", Plus("^ ")) \o Lit(" scored a ") \o HitQualifiers
        \o Cap("skill", LazyStar(".")) \o Lit(" on ")
        \o Cap("target", Star(".")) \o Lit(" for ")
        \o Cap("value", Plus("d,")) \o Lit(" ")
        \o Cap("type", LazyStar(".")) \o Opt(Lit(" ")) \o Lit("damage to Morale")
        \o Rep(".", 1, 1)

\* switch match[dmg.SubexpIndex("crit")]: the avoidance is read from the group
\* named crit, in pDmg and in pDmgNoValue.
AvoidedOfCrit(crit) ==
    CASE crit = "blocked" -> "Blocked"
      [] crit = "parried" -> "Parried"
      [] crit = "evaded" -> "Evaded"
      [] OTHER -> "UnknownAvoid"

pDmg(l) ==
    IF ~RegexpMatch(DmgTrigger, l) THEN NotMatched
    ELSE With(extractTimestamp(l), LAMBDA ts :
         IF ts.err # Nil THEN TimestampFailed(ts)
         ELSE With(FindStringSubmatch(DmgRe, ts.remaining), LAMBDA match :
              IF ~match.ok THEN Failed("Failed to parse as dmg dealt")
              ELSE With(Atoi(RemoveCommas(match.caps.val["value"])), LAMBDA val :
                   IF ~val.ok
                   THEN Failed("value not convertable to int: " \o val.err)
                   ELSE Matched([NewEntry(l, ts.t) EXCEPT
                                   !.Skill = match.caps.val["skill"],
                                   !.Target = match.caps.val["target"],
                                   !.Source = match.caps.val["source"],
                                   !.Value = val.n,
                                   !.ValueType = match.caps.val["type"],
                                   !.Crit = (match.caps.val["crit"] = "critical"),
                                   !.Dev = (match.caps.val["crit"] = "devastating"),
                                   !.Avoided = AvoidedOfCrit(match.caps.val["crit"])]))))

\* scored a .*hit
HitTrigger == Lit("scored a ") \o Star(".") \o Lit("hit")

\* (?P<player>\w+) scored a <qualifiers>hit with (?P<skill>.*?) on (?P<target>[^ ]+).$
DmgNoValueRe ==
    Cap("player", Plus("w")) \o Lit(" scored a ") \o HitQualifiers
        \o Cap("skill", LazyStar(".")) \o Lit(" on ")
        \o Cap("target", Plus("^ ")) \o Rep(".", 1, 1) \o Eol

pDmgNoValue(l) ==
    IF ~RegexpMatch(HitTrigger, l) THEN NotMatched
    ELSE IF RegexpMatch(DmgTrigger, l) THEN NotMatched
    ELSE With(extractTimestamp(l), LAMBDA ts :
         IF ts.err # Nil THEN TimestampFailed(ts)
         ELSE With(FindStringSubmatch(DmgNoValueRe, ts.remaining), LAMBDA match :
              IF ~match.ok THEN Failed("Failed to parse as dmg no value")
              ELSE Matched([NewEntry(l, ts.t) EXCEPT
                              !.Skill = match.caps.val["skill"],
                              !.Target = match.caps.val["target"],
                              !.Source = match.caps.val["player"],
                              !.Value = 0,
                              !.Crit = (match.caps.val["crit"] = "critical"),
                              !.Dev = (match.caps.val["crit"] = "devastating"),
                              !.Avoided = AvoidedOfCrit(match.caps.val["crit"])])))

\* tried to use.*
AvoidTrigger == Lit("tried to use") \o Star(".")

\* (?P<player>\w+) tried to use (?P<skill>.*?) on (?P<target>.*) but (?P<reason>.*) the attempt.
AvoidRe ==
    Cap("player", Plus("w")) \o Lit(" tried to use ")
        \o Cap("skill", LazyStar(".")) \o Lit(" on ")
        \o Cap("target", Star(".")) \o Lit(" but ")
        \o Cap("reason", Star(".")) \o Lit(" the attempt") \o Rep(".", 1, 1)

AvoidedOfReason(reason) ==
    CASE reason = "blocked" -> "Blocked"
      [] reason = "parried" -> "Parried"
      [] reason = "evaded" -> "Evaded"
      [] reason = "resisted" -> "Resisted"
      [] OTHER -> "UnknownAvoid"

pAvoid(l) ==
    IF ~RegexpMatch(AvoidTrigger, l) THEN NotMatched
    ELSE With(extractTimestamp(l), LAMBDA ts :
         IF ts.err # Nil THEN TimestampFailed(ts)
         ELSE With(FindStringSubmatch(AvoidRe, ts.remaining), LAMBDA match :
              IF ~match.ok THEN Failed("Failed to parse as avoid")
              ELSE Matched([NewEntry(l, ts.t) EXCEPT
                              !.Skill = match.caps.val["skill"],
                              !.Target = match.caps.val["target"],
                              !.Source = match.caps.val["player"],
                              !.Avoided = AvoidedOfReason(match.caps.val["reason"])])))

\* missed trying to use.*
MissTrigger == Lit("missed trying to use") \o Star(".")

\* (?P<player>\w+) missed trying to use (?P<skill>.*?) on (?P<target>.*).
MissRe ==
    Cap("player", Plus("w")) \o Lit(" missed trying to use ")
        \o Cap("skill", LazyStar(".")) \o Lit(" on ")
        \o Cap("target", Star(".")) \o Rep(".", 1, 1)

pMiss(l) ==
    IF ~RegexpMatch(MissTrigger, l) THEN NotMatched
    ELSE With(extractTimestamp(l), LAMBDA ts :
         IF ts.err # Nil THEN TimestampFailed(ts)
         ELSE With(FindStringSubmatch(MissRe, ts.remaining), LAMBDA match :
              IF ~match.ok THEN Failed("Failed to parse as avoid")
              ELSE Matched([NewEntry(l, ts.t) EXCEPT
                              !.Skill = match.caps.val["skill"],
                              !.Target = match.caps.val["target"],
                              !.Source = match.caps.val["player"],
                              !.Avoided = "Missed"])))

\* You have lost .* of temporary Morale!
TempMoraleTrigger ==
    Lit("You have lost ") \o Star(".") \o Lit(" of temporary Morale!")

\* You have lost (?P<value>[\d,]+) points of temporary Morale!
TempMoraleRe ==
    Lit("You have lost ") \o Cap("value", Plus("d,"))
        \o Lit(" points of temporary Morale!")

pTempMoraleLost(l) ==
    IF ~RegexpMatch(TempMoraleTrigger, l) THEN NotMatched
    ELSE With(extractTimestamp(l), LAMBDA ts :
         IF ts.err # Nil THEN TimestampFailed(ts)
         ELSE With(FindStringSubmatch(TempMoraleRe, ts.remaining), LAMBDA match :
              IF ~match.ok THEN Failed("Failed to parse as temp morale lost")
              ELSE With(Atoi(RemoveCommas(match.caps.val["value"])), LAMBDA val :
                   IF ~val.ok
                   THEN Failed("value not convertable to int: " \o val.err)
                   ELSE Matched([NewEntry(l, ts.t) EXCEPT !.Value = val.n]))))

\* .* defeated .*$
DefeatTrigger == Star(".") \o Lit(" defeated ") \o Star(".") \o Eol

\* (?P<victor>.*) defeated (?P<dead>.*)\.
DefeatRe ==
    Cap("victor", Star(".")) \o Lit(" defeated ") \o Cap("dead", Star(".")) \o Lit(".")

pDefeat(l) ==
    IF ~RegexpMatch(DefeatTrigger, l) THEN NotMatched
    ELSE With(extractTimestamp(l), LAMBDA ts :
         IF ts.err # Nil THEN TimestampFailed(ts)
         ELSE With(FindStringSubmatch(DefeatRe, ts.remaining), LAMBDA match :
              IF ~match.ok THEN Failed("Failed to parse as defeat")
              ELSE Matched([NewEntry(l, ts.t) EXCEPT
                              !.Source = match.caps.val["victor"],
                              !.Target = match.caps.val["dead"]])))

\* ( incapacitated you|You have been incapacitated by misadventure)\.$
IncapacitateTrigger ==
    Cap("g1", Alt(<<Lit(" incapacitated you"),
                    Lit("You have been incapacitated by misadventure")>>))
        \o Lit(".") \o Eol

\* (?P<source>.*) incapacitated you\.
IncapacitateRe == Cap("source", Star(".")) \o Lit(" incapacitated you.")

pIncapacitate(l) ==
    IF ~RegexpMatch(IncapacitateTrigger, l) THEN NotMatched
    ELSE With(extractTimestamp(l), LAMBDA ts :
         IF ts.err # Nil THEN TimestampFailed(ts)
         ELSE IF ts.remaining = "You have been incapacitated by misadventure."
         THEN Matched([NewEntry(l, ts.t) EXCEPT !.Target = selfplaceholder])
         ELSE With(FindStringSubmatch(IncapacitateRe, ts.remaining), LAMBDA match :
              IF ~match.ok THEN Failed("Failed to parse as incapacitation")
              ELSE Matched([NewEntry(l, ts.t) EXCEPT
                              !.Source = match.caps.val["source"]])))

\* .* been revived.$
ReviveTrigger == Star(".") \o Lit(" been revived") \o Rep(".", 1, 1) \o Eol

\* (?P<target>.*) has been revived\.
ReviveRe == Cap("target", Star(".")) \o Lit(" has been revived.")

pRevive(l) ==
    IF ~RegexpMatch(ReviveTrigger, l) THEN NotMatched
    ELSE With(extractTimestamp(l), LAMBDA ts :
         IF ts.err # Nil THEN TimestampFailed(ts)
         ELSE IF ts.remaining = "You have been revived."
         THEN Matched([NewEntry(l, ts.t) EXCEPT !.Target = selfplaceholder])
         ELSE With(FindStringSubmatch(ReviveRe, ts.remaining), LAMBDA match :
              IF ~match.ok THEN Failed("Failed to parse as revive")
              ELSE Matched([NewEntry(l, ts.t) EXCEPT
                              !.Target = match.caps.val["target"]])))

\* succumb.*wounds
SuccumbTrigger == Lit("succumb") \o Star(".") \o Lit("wounds")

\* (?P<target>.*) has succumbed to .* wounds\.
SuccumbRe ==
    Cap("target", Star(".")) \o Lit(" has succumbed to ") \o Star(".")
        \o Lit(" wounds.")

pSuccumb(l) ==
    IF ~RegexpMatch(SuccumbTrigger, l) THEN NotMatched
    ELSE With(extractTimestamp(l), LAMBDA ts :
         IF ts.err # Nil THEN TimestampFailed(ts)
         ELSE IF ts.remaining = "You succumb to your wounds."
         THEN Matched([NewEntry(l, ts.t) EXCEPT !.Target = selfplaceholder])
         ELSE With(FindStringSubmatch(SuccumbRe, ts.remaining), LAMBDA match :
              IF ~match.ok THEN Failed("Failed to parse as succumbing to wounds")
              ELSE Matched([NewEntry(l, ts.t) EXCEPT
                              !.Target = match.caps.val["target"]])))

\* (have dispelled.*from.*|Nothing to dispel.)
CorrRemoveTrigger ==
    Cap("g1", Alt(<<Lit("have dispelled") \o Star(".") \o Lit("from") \o Star("."),
                    Lit("Nothing to dispel") \o Rep(".", 1, 1)>>))

\* You have dispelled (?P<corruption>.*) from (?P<target>.*)\.$
CorrRemoveRe ==
    Lit("You have dispelled ") \o Cap("corruption", Star(".")) \o Lit(" from ")
        \o Cap("target", Star(".")) \o Lit(".") \o Eol

pCorrRemove(l) ==
    IF ~RegexpMatch(CorrRemoveTrigger, l) THEN NotMatched
    ELSE With(extractTimestamp(l), LAMBDA ts :
         IF ts.err # Nil THEN TimestampFailed(ts)
         ELSE IF ts.remaining = "Nothing to dispel."
         THEN Matched([NewEntry(l, ts.t) EXCEPT !.Source = selfplaceholder])
         ELSE With(FindStringSubmatch(CorrRemoveRe, ts.remaining), LAMBDA match :
              IF ~match.ok THEN Failed("Failed to parse as corr removal")
              ELSE Matched([NewEntry(l, ts.t) EXCEPT
                              !.Target = match.caps.val["target"],
                              !.Skill = match.caps.val["corruption"]])))

\* <space>released .* from being immobilized!
CCBrokenTrigger ==
    Lit(" released ") \o Star(".") \o Lit(" from being immobilized!")

\* (?P<source>.*) (have|has) released (?P<target>.*) from being immobilized!$
CCBrokenRe ==
    Cap("source", Star(".")) \o Lit(" ")
        \o Cap("g2", Alt(<<Lit("have"), Lit("has")>>)) \o Lit(" released ")
        \o Cap("target", Star(".")) \o Lit(" from being immobilized!") \o Eol

pCCBroken(l) ==
    IF ~RegexpMatch(CCBrokenTrigger, l) THEN NotMatched
    ELSE With(extractTimestamp(l), LAMBDA ts :
         IF ts.err # Nil THEN TimestampFailed(ts)
         ELSE With(FindStringSubmatch(CCBrokenRe, ts.remaining), LAMBDA match :
              IF ~match.ok THEN Failed("Failed to parse as cc break")
              ELSE Matched([NewEntry(l, ts.t) EXCEPT
                              !.Target = match.caps.val["target"],
                              !.Source = IF match.caps.val["source"] = "You"
                                         THEN selfplaceholder
                                         ELSE match.caps.val["source"]])))

-----------------------------------------------------------------------------
(* The options map of parseLogLine                                         *)

eventParsers ==
    {"pComment", "pBenefit", "pHeal", "pDmg", "pAvoid", "pMiss", "pDmgNoValue",
     "pTempMoraleLost", "pDefeat", "pIncapacitate", "pRevive", "pSuccumb",
     "pCorrRemove", "pCCBroken"}

\* options: each category's parsers, in the order of its slice.
options ==
    [k \in EventTypes |->
        CASE k = "Comment" -> <<"pComment">>
          [] k = "Benefit" -> <<"pBenefit">>
          [] k = "Heal" -> <<"pHeal">>
          [] k = "DmgDealt" -> <<"pDmg", "pAvoid", "pMiss", "pDmgNoValue">>
          [] k = "TempMoraleLost" -> <<"pTempMoraleLost">>
          [] k = "Death" -> <<"pDefeat", "pIncapacitate">>
          [] k = "Revive" -> <<"pRevive", "pSuccumb">>
          [] k = "CorruptionRemoved" -> <<"pCorrRemove">>
          [] k = "CcBroken" -> <<"pCCBroken">>]

\* p(line), for the parser named p.
Apply(p, l) ==
    CASE p = "pComment" -> pComment(l)
      [] p = "pBenefit" -> pBenefit(l)
      [] p = "pHeal" -> pHeal(l)
      [] p = "pDmg" -> pDmg(l)
      [] p = "pAvoid" -> pAvoid(l)
      [] p = "pMiss" -> pMiss(l)
      [] p = "pDmgNoValue" -> pDmgNoValue(l)
      [] p = "pTempMoraleLost" -> pTempMoraleLost(l)
      [] p = "pDefeat" -> pDefeat(l)
      [] p = "pIncapacitate" -> pIncapacitate(l)
      [] p = "pRevive" -> pRevive(l)
      [] p = "pSuccumb" -> pSuccumb(l)
      [] p = "pCorrRemove" -> pCorrRemove(l)
      [] p = "pCCBroken" -> pCCBroken(l)

-----------------------------------------------------------------------------
(* Input lines                                                             *)

StampPM == "07/08 02:22:01 PM "
StampBracketed == "[07/08 02:22:01 PM] "
Stamp24 == "07/08 14:22:01 "

\* A valued damage line, from its parts (a qualifier ends in a space or is empty).
DmgLine(stamp, src, qual, skill, tgt, n, type) ==
    stamp \o src \o " scored a " \o qual \o "hit with " \o skill \o " on " \o tgt
          \o " for " \o n \o " " \o type \o " damage to Morale."

\* A damage line without a value clause.
DmgNoValueLine(stamp, src, qual, skill, tgt) ==
    stamp \o src \o " scored a " \o qual \o "hit with " \o skill \o " on " \o tgt \o "."

DmgStamps == {StampPM, Stamp24}
CritQualifiers == {"", "critical ", "devastating "}
AvoidQualifiers == {"partially blocked ", "partially parried ", "partially evaded "}
DmgValues == {"1,234", "7"}

DmgLines ==
    {DmgLine(st, "Bob", q, "Sting", "Orc-captain", n, "Common") :
        st \in DmgStamps, q \in CritQualifiers \cup AvoidQualifiers, n \in DmgValues}

DmgNoValueLines ==
    {DmgNoValueLine(StampPM, "Bob", q, "Sting", "Orc-captain") :
        q \in CritQualifiers \cup AvoidQualifiers}

CommentLines ==
    {"###", "### session start", "### Bob applied a benefit with Hope on Tom.",
     "### Bob defeated Orc."}

\* Phrases after the timestamp.
Phrases ==
    {"Bob applied a benefit with Hope on Tom.",
     "Bob applied a critical benefit with Hope on Tom.",
     "Sting applied a heal to Bob restoring 1,234 points to Morale.",
     "Bob applied a critical heal with Mend to Tom restoring 10 points to Morale.",
     "Bob applied a heal on Tom.",
     "Bob tried to use Sting on Orc but blocked the attempt.",
     "Bob tried to use Sting on Orc but he resisted the attempt.",
     "Bob missed trying to use Sting on Orc.",
     "You have lost 1,234 points of temporary Morale!",
     "You have lost 10.5 points of temporary Morale!",
     "You have lost , points of temporary Morale!",
     "You have lost 99999999999999999999 points of temporary Morale!",
     "Bob defeated Orc.",
     "Orc incapacitated you.",
     "You have been incapacitated by misadventure.",
     "Bob has been revived.",
     "You have been revived.",
     "Bob has succumbed to his wounds.",
     "You succumb to your wounds.",
     "You have dispelled Rot from Orc.",
     "Nothing to dispel.",
     "You have released Orc from being immobilized!",
     "Bob has released Orc from being immobilized!",
     "Bob defeated Orc has been revived.",
     "Bob defeated Orc have been revived.",
     "The weather changed."}

\* Phrases that are also given with the other forms of timestamp, and without one.
RestampedPhrases ==
    {"Bob defeated Orc.", "You have been incapacitated by misadventure.",
     "The weather changed."}

PhraseLines ==
    {StampPM \o ph : ph \in Phrases}
        \cup {st \o ph : st \in {StampBracketed, Stamp24, ""}, ph \in RestampedPhrases}

Lines == CommentLines \cup DmgLines \cup DmgNoValueLines \cup PhraseLines

\* p(l) for every parser p and every line l of ls.  The parsers are pure
\* functions of the line, so the model computes them once per line.
Outcomes(ls) == [l \in ls |-> [p \in eventParsers |-> Apply(p, l)]]

-----------------------------------------------------------------------------
(* parseLogLine                                                            *)

\* A *LogEntry is <<>> (nil) or <<e>>.
NilEntry == <<>>

RECURSIVE RunParsersSwallow(_, _, _, _)
\* RunParsers with `continue` taken on every error, not only on a no-match.
RunParsersSwallow(ps, i, l, e) ==
    IF i > Len(ps)
    THEN [hard |-> FALSE, entry |-> e, err |-> Nil]
    ELSE LET r == outcome[l][ps[i]]
         IN IF r.res = "ok"
            THEN RunParsersSwallow(ps, i + 1, l, <<r.e>>)
            ELSE RunParsersSwallow(ps, i + 1, l, e)

RECURSIVE RunParsers(_, _, _, _)
\* for _, p := range ps: the parsers of one category from the i-th on; hard is the
\* return inside the loop.
RunParsers(ps, i, l, e) ==
    IF i > Len(ps)
    THEN [hard |-> FALSE, entry |-> e, err |-> Nil]
    ELSE LET r == outcome[l][ps[i]]
         IN IF r.res = "nomatch"
            THEN RunParsers(ps, i + 1, l, e)
            ELSE IF r.res = "error"
                 THEN [hard |-> TRUE, entry |-> e,
                       err |-> "Odd error from parsing: " \o r.err]
                 ELSE RunParsers(ps, i + 1, l, <<r.e>>)

\* Finish without the assignment entry.RawMessage = line.
FinishNoRaw(e, l) ==
    IF e = NilEntry
    THEN [entry |-> NilEntry, err |-> "No parsers matched"]
    ELSE [entry |-> e, err |-> Nil]

\* The statements after the range loop.
Finish(e, l) ==
    IF e = NilEntry
    THEN [entry |-> NilEntry, err |-> "No parsers matched"]
    ELSE [entry |-> <<[e[1] EXCEPT !.RawMessage = l]>>, err |-> Nil]

mainVars == <<input, mpc, lines, errorlines, ri, printed, outcome>>
tsVars == <<tsin, tsout>>

\* One iteration of `for _, ps := range options`: Go leaves the order of a map's
\* keys unspecified, so any key not yet visited may come next.
RangeStep(k) ==
    /\ pc = "range"
    /\ k \in todo
    /\ LET r == RunParsers(options[k], 1, line, entry)
       IN IF r.hard
          THEN /\ ret' = [entry |-> NilEntry, err |-> r.err]
               /\ pc' = "done"
               /\ UNCHANGED <<todo, entry>>
          ELSE /\ entry' = r.entry
               /\ todo' = todo \ {k}
               /\ UNCHANGED <<pc, ret>>
    /\ UNCHANGED <<line, rets, tsVars, mainVars>>

\* The range loop is over.
ReturnParse ==
    /\ pc = "range"
    /\ todo = {}
    /\ ret' = Finish(entry, line)
    /\ pc' = "done"
    /\ UNCHANGED <<line, todo, entry, rets, tsVars, mainVars>>

NoRet == [entry |-> NilEntry, err |-> Nil]

-----------------------------------------------------------------------------
(* A caller that parses one line several times                             *)

MaxCalls == 2

CallParse ==
    /\ mpc = "off"
    /\ pc = "idle"
    /\ Len(rets) < MaxCalls
    /\ pc' = "range"
    /\ todo' = EventTypes
    /\ entry' = NilEntry
    /\ UNCHANGED <<line, ret, rets, tsVars, mainVars>>

KeepResult ==
    /\ mpc = "off"
    /\ pc = "done"
    /\ rets' = Append(rets, ret)
    /\ pc' = "idle"
    /\ UNCHANGED <<line, todo, entry, ret, tsVars, mainVars>>

Init ==
    /\ line \in Lines
    /\ pc = "idle"
    /\ todo = {}
    /\ entry = NilEntry
    /\ ret = NoRet
    /\ rets = <<>>
    /\ tsin = ""
    /\ tsout = <<>>
    /\ input = <<>>
    /\ mpc = "off"
    /\ lines = 0
    /\ errorlines = <<>>
    /\ ri = 0
    /\ printed = <<>>
    /\ outcome = Outcomes({line})

Next ==
    \/ CallParse
    \/ \E k \in EventTypes : RangeStep(k)
    \/ ReturnParse
    \/ KeepResult

Spec == Init /\ [][Next]_vars

-----------------------------------------------------------------------------
(* extractTimestamp on its own                                             *)

TsDates == {"07/08", "02/30", "13/01", "7/8"}
TsHours == {"00", "01", "02", "12", "13", "14", "23", "24"}
TsSuffixes == {"", " AM", " PM", "PM"}
TsBrackets == {<<"", "">>, <<"[", "]">>}
TsRest == "Bob defeated Orc."

TsParts == TsDates \X TsHours \X TsSuffixes \X TsBrackets

\* The line whose timestamp token is made of the parts.
TsLine(x) ==
    x[4][1] \o x[1] \o " " \o x[2] \o ":22:01" \o x[3] \o x[4][2] \o " " \o TsRest

TsInputs == {TsLine(x) : x \in TsParts}

ExtractTimestamp ==
    /\ mpc = "ts"
    /\ tsout = <<>>
    /\ tsout' = <<extractTimestamp(tsin)>>
    /\ UNCHANGED <<line, pc, todo, entry, ret, rets, tsin, mainVars>>

InitTs ==
    /\ tsin \in TsInputs
    /\ tsout = <<>>
    /\ line = ""
    /\ pc = "idle"
    /\ todo = {}
    /\ entry = NilEntry
    /\ ret = NoRet
    /\ rets = <<>>
    /\ input = <<>>
    /\ mpc = "ts"
    /\ lines = 0
    /\ errorlines = <<>>
    /\ ri = 0
    /\ printed = <<>>
    /\ outcome = Outcomes({})

NextTs == ExtractTimestamp

SpecTs == InitTs /\ [][NextTs]_vars

-----------------------------------------------------------------------------
(* main                                                                    *)

MaxLines == 13
MaxGap == 5
ReportCap == 10

GoodLines == <<"### session start", StampPM \o "Bob defeated Orc.">>
BadLines == <<Stamp24 \o "The weather changed.", Stamp24 \o "Bob defeated Orc.">>

\* A file of n lines in which every (gap+1)-th line parses and the others fail.
File(gap, n) ==
    [i \in 1..n |->
        IF i % (gap + 1) = 0
        THEN GoodLines[((i \div (gap + 1)) % 2) + 1]
        ELSE BadLines[(i % 2) + 1]]

InputFiles == {File(gap, n) : gap \in 1..MaxGap, n \in 0..MaxLines}

\* scanner.Scan() is true: lines++, line := scanner.Text(), and parseLogLine(line)
\* is entered.
Scan ==
    /\ mpc = "scan"
    /\ lines < Len(input)
    /\ lines' = lines + 1
    /\ line' = input[lines + 1]
    /\ pc' = "range"
    /\ todo' = EventTypes
    /\ entry' = NilEntry
    /\ mpc' = "parse"
    /\ UNCHANGED <<ret, rets, tsVars, input, errorlines, ri, printed, outcome>>

\* CheckErr with `break` in the place of `continue`.
CheckErrBreak ==
    /\ mpc = "parse"
    /\ pc = "done"
    /\ IF ret.err # Nil
       THEN /\ errorlines' = Append(errorlines, line)
            /\ mpc' = "report"
       ELSE /\ mpc' = "scan"
            /\ UNCHANGED errorlines
    /\ pc' = "idle"
    /\ UNCHANGED <<line, todo, entry, ret, rets, tsVars, input, lines, ri, printed, outcome>>

\* parseLogLine has returned: if err != nil the line is appended to errorlines; the
\* loop goes on either way.
CheckErr ==
    /\ mpc = "parse"
    /\ pc = "done"
    /\ IF ret.err # Nil
       THEN errorlines' = Append(errorlines, line)
       ELSE UNCHANGED errorlines
    /\ mpc' = "scan"
    /\ pc' = "idle"
    /\ UNCHANGED <<line, todo, entry, ret, rets, tsVars, input, lines, ri, printed, outcome>>

\* scanner.Scan() is false: the totals are printed and the final loop begins.
ScanEnd ==
    /\ mpc = "scan"
    /\ lines = Len(input)
    /\ mpc' = "report"
    /\ ri' = 0
    /\ UNCHANGED <<line, pc, todo, entry, ret, rets, tsVars, input, lines,
                   errorlines, printed, outcome>>

\* for i, el := range errorlines { if i >= 10 { break }; fmt.Println(el) }
PrintLine ==
    /\ mpc = "report"
    /\ ri < Len(errorlines)
    /\ ri < ReportCap
    /\ printed' = Append(printed, errorlines[ri + 1])
    /\ ri' = ri + 1
    /\ UNCHANGED <<line, pc, todo, entry, ret, rets, tsVars, input, mpc, lines,
                   errorlines, outcome>>

ReportEnd ==
    /\ mpc = "report"
    /\ (ri >= Len(errorlines) \/ ri >= ReportCap)
    /\ mpc' = "exit"
    /\ UNCHANGED <<line, pc, todo, entry, ret, rets, tsVars, input, lines,
                   errorlines, ri, printed, outcome>>

InitMain ==
    /\ input \in InputFiles
    /\ mpc = "scan"
    /\ lines = 0
    /\ errorlines = <<>>
    /\ ri = 0
    /\ printed = <<>>
    /\ line = ""
    /\ pc = "idle"
    /\ todo = {}
    /\ entry = NilEntry
    /\ ret = NoRet
    /\ rets = <<>>
    /\ tsin = ""
    /\ tsout = <<>>
    /\ outcome = Outcomes({input[i] : i \in 1..Len(input)})

NextMain ==
    \/ Scan
    \/ \E k \in EventTypes : RangeStep(k)
    \/ ReturnParse
    \/ CheckErr
    \/ ScanEnd
    \/ PrintLine
    \/ ReportEnd

SpecMain == InitMain /\ [][NextMain]_vars

-----------------------------------------------------------------------------
(* Properties                                                              *)

\* Some registered parser returns an error that is not ParseNotMatchError on l.
HardFailure(l) == \E p \in eventParsers : outcome[l][p].res = "error"

\* Some registered parser returns an entry on l.
SomeMatch(l) == \E p \in eventParsers : outcome[l][p].res = "ok"

\* Some parser registered under category k returns an entry on l.
MatchedUnder(k, l) ==
    \E i \in 1..Len(options[k]) : outcome[l][options[k][i]].res = "ok"

\* C1: whenever parseLogLine returns an event, its etype is not Unknown: it is
\* a category under which a parser that matched the line is registered.
C1_EtypeIsCategory ==
    (pc = "done" /\ ret.err = Nil) =>
        /\ ret.entry[1].etype # "Unknown"
        /\ \E k \in EventTypes : ret.entry[1].etype = k /\ MatchedUnder(k, line)

\* C2: two calls of parseLogLine on the same line give the same outcome: both
\* fail, or both succeed with events equal in every field, whatever the order
\* in which the range loop visits the keys of options.
C2_Deterministic ==
    Len(rets) >= 2 =>
        \/ rets[1].err # Nil /\ rets[2].err # Nil
        \/ rets[1].err = Nil /\ rets[2].err = Nil /\ rets[1].entry = rets[2].entry

\* The integer a value token denotes once its commas are removed.
ValueOf(n) == CASE n = "1,234" -> 1234 [] n = "7" -> 7

\* C3: a well-formed valued damage line, with a 12-hour or a 24-hour timestamp
\* and with or without commas in the value, parses to a DmgDealt event with the
\* source, skill, target, value and value type of the line, Crit true exactly
\* for the qualifier "critical", and no avoidance.
C3_ValuedDamage ==
    \A st \in DmgStamps, q \in CritQualifiers, n \in DmgValues :
        (pc = "done" /\ line = DmgLine(st, "Bob", q, "Sting", "Orc-captain", n, "Common")) =>
            /\ ret.err = Nil
            /\ ret.entry # NilEntry
            /\ ret.entry[1].etype = "DmgDealt"
            /\ ret.entry[1].Source = "Bob"
            /\ ret.entry[1].Skill = "Sting"
            /\ ret.entry[1].Target = "Orc-captain"
            /\ ret.entry[1].Value = ValueOf(n)
            /\ ret.entry[1].ValueType = "Common"
            /\ ret.entry[1].Crit = (q = "critical ")
            /\ ret.entry[1].Avoided = "UnknownAvoid"

\* The token made of the parts fits the shape MM/DD HH:MM:SS with an optional
\* AM or PM, optionally bracketed and followed by a space.
TsShape(x) == x[1] \in {"07/08", "02/30", "13/01"}

\* The date of the token exists.
TsDateValid(x) == x[1] = "07/08"

\* The token is valid under the 12-hour grammar: hour 01-12 with AM or PM.
TsValid12(x) ==
    TsDateValid(x) /\ x[2] \in {"01", "02", "12"} /\ x[3] \in {" AM", " PM"}

\* The token is valid under the 24-hour grammar: hour 00-23 without a suffix.
TsValid24(x) ==
    TsDateValid(x) /\ x[2] \in {"00", "01", "02", "12", "13", "14", "23"} /\ x[3] = ""

\* The hour of the day the token denotes.
TsHourOf(x) ==
    LET h == CASE x[2] = "00" -> 0 [] x[2] = "01" -> 1 [] x[2] = "02" -> 2
               [] x[2] = "12" -> 12 [] x[2] = "13" -> 13 [] x[2] = "14" -> 14
               [] x[2] = "23" -> 23 [] x[2] = "24" -> 24
    IN CASE x[3] = " AM" -> IF h = 12 THEN 0 ELSE h
         [] x[3] = " PM" -> IF h = 12 THEN 12 ELSE h + 12
         [] OTHER -> h

\* C4: extractTimestamp accepts every token of the shape that is valid under
\* the 12-hour grammar or under the 24-hour grammar, returning the time and the
\* rest of the line; it fails with "invalid timestamp format" only when the
\* token fits the shape and is valid under neither grammar, and with "timestamp
\* not found" only when the shape does not match.
C4_TimestampGrammars ==
    \A x \in TsParts :
        (tsout # <<>> /\ tsin = TsLine(x)) =>
            /\ (TsShape(x) /\ (TsValid12(x) \/ TsValid24(x))) =>
                  /\ tsout[1].err = Nil
                  /\ tsout[1].remaining = TsRest
                  /\ tsout[1].t.month = 7
                  /\ tsout[1].t.day = 8
                  /\ tsout[1].t.hour = TsHourOf(x)
                  /\ tsout[1].t.min = 22
                  /\ tsout[1].t.sec = 1
            /\ tsout[1].err = ErrInvalidTimestampFormat =>
                  (TsShape(x) /\ ~TsValid12(x) /\ ~TsValid24(x))
            /\ tsout[1].err = ErrTimestampNotFound => ~TsShape(x)

\* C5: every line that begins with "###" parses to a Comment event, whatever
\* follows the prefix.
C5_CommentAlways ==
    (pc = "done" /\ HasPrefix(line, "###")) =>
        /\ ret.err = Nil
        /\ ret.entry # NilEntry
        /\ ret.entry[1].etype = "Comment"

\* C6: on every successful parse the returned event's RawMessage is the line
\* passed to parseLogLine, unchanged.
C6_RawMessageIsLine ==
    (pc = "done" /\ ret.err = Nil) =>
        /\ ret.entry # NilEntry
        /\ ret.entry[1].RawMessage = line

\* C6 happens: a comment line, whose parser leaves RawMessage empty, has been
\* parsed with success.
C6_Witness ==
    /\ pc = "done"
    /\ ret.err = Nil
    /\ line = "### session start"
    /\ outcome[line]["pComment"].e.RawMessage = ""
    /\ ret.entry[1].RawMessage = "### session start"

\* The field of the event that must hold the sentinel, for each phrase that
\* names the observing player as you/You.
SelfPhrases ==
    {<<"Orc incapacitated you.", "Target">>,
     <<"You have been incapacitated by misadventure.", "Target">>,
     <<"You have been revived.", "Target">>,
     <<"You succumb to your wounds.", "Target">>,
     <<"You have dispelled Rot from Orc.", "Source">>,
     <<"You have released Orc from being immobilized!", "Source">>}

\* C7: for each phrase that refers to the observing player as you/You, the
\* event's field for that actor holds selfplaceholder.
C7_SelfSentinel ==
    \A x \in SelfPhrases :
        (pc = "done" /\ line = StampPM \o x[1]) =>
            /\ ret.err = Nil
            /\ ret.entry # NilEntry
            /\ ret.entry[1][x[2]] = selfplaceholder

\* C8: when a registered parser fails hard on the line, parseLogLine returns
\* that kind of error and no event, in every order of the categories and also
\* when another parser matched; without a hard failure the call succeeds when
\* some parser matched and fails with "No parsers matched" when none did.
C8_HardFailurePropagates ==
    pc = "done" =>
        /\ HardFailure(line) =>
              /\ ret.entry = NilEntry
              /\ HasPrefix(ret.err, "Odd error from parsing: ")
        /\ (~HardFailure(line) /\ SomeMatch(line)) =>
              /\ ret.err = Nil
              /\ ret.entry # NilEntry
        /\ (~HardFailure(line) /\ ~SomeMatch(line)) =>
              /\ ret.entry = NilEntry
              /\ ret.err = "No parsers matched"

\* C8 happens: parseLogLine has returned the error on a line on which one
\* parser failed hard and another matched.
C8_Witness ==
    /\ pc = "done"
    /\ HardFailure(line)
    /\ SomeMatch(line)
    /\ ret.err # Nil
    /\ ret.entry = NilEntry

\* The avoidance a hit qualifier stands for.
AvoidOf(q) ==
    CASE q = "partially blocked " -> "Blocked"
      [] q = "partially parried " -> "Parried"
      [] q = "partially evaded " -> "Evaded"
      [] OTHER -> "UnknownAvoid"

\* C9: a damage line with an avoided hit, with or without a value clause,
\* parses to an event whose Avoided is Blocked, Parried or Evaded as the
\* qualifier says, and to no avoidance only without such a qualifier.
C9_Avoidance ==
    \A q \in CritQualifiers \cup AvoidQualifiers :
        (/\ pc = "done"
         /\ \/ line = DmgNoValueLine(StampPM, "Bob", q, "Sting", "Orc-captain")
            \/ \E n \in DmgValues :
                  line = DmgLine(StampPM, "Bob", q, "Sting", "Orc-captain", n, "Common"))
        => /\ ret.err = Nil
           /\ ret.entry # NilEntry
           /\ ret.entry[1].Avoided = AvoidOf(q)

\* parseLogLine returns an error on l.
ParseFails(l) == HardFailure(l) \/ ~SomeMatch(l)

\* The lines of the file whose parse has been completed and checked.
Checked == SubSeq(input, 1, IF mpc = "parse" THEN lines - 1 ELSE lines)

\* C10: the loop of main parses every line once, in file order, and goes on
\* after a failing line: lines counts the lines read, errorlines holds exactly
\* the lines on which parseLogLine returned an error, in input order, and the
\* final loop prints the first ReportCap of them at most.
C10_LoopTotals ==
    /\ mpc = "parse" => (lines \in 1..Len(input) /\ line = input[lines])
    /\ (mpc = "parse" /\ pc = "done") => ((ret.err # Nil) <=> ParseFails(line))
    /\ mpc \in {"scan", "parse"} => errorlines = SelectSeq(Checked, ParseFails)
    /\ mpc \in {"report", "exit"} =>
          /\ lines = Len(input)
          /\ errorlines = SelectSeq(input, ParseFails)
          /\ printed = SubSeq(errorlines, 1, ri)
    /\ mpc = "exit" => printed = SubSeq(errorlines, 1, Min({ReportCap, Len(errorlines)}))

\* C10 happens: a run has ended in which lines parsed after failing lines and
\* more than ReportCap lines failed.
C10_Witness ==
    /\ mpc = "exit"
    /\ lines = Len(input)
    /\ Len(errorlines) > ReportCap
    /\ Len(errorlines) < lines
    /\ Len(printed) = ReportCap

====
